---------------------------- MODULE Spec2Model ----------------------------
(***************************************************************************)
(* A model of anaphones.py: normalisation of spellings and pronunciations, *)
(* the source dictionary (IPADict), the generic anagram grouping           *)
(* (find_anagrams), the phonetic anagram dictionary and the report loop of *)
(* main().                                                                 *)
(*                                                                         *)
(* A Python str is a sequence of Unicode code points (naturals), so that   *)
(* sorted() orders characters as Python does.  A Python dict is a sequence *)
(* of [k, v] records in insertion order; assigning to a key that is        *)
(* present replaces the value in place.                                    *)
(***************************************************************************)
EXTENDS Integers, Sequences, FiniteSets, TLC

VARIABLES
    pc,          \* position of main(): "load", "index", "report", "write", "done", "error"
    doc,         \* the decoded JSON document of the input file (a dict: language -> value)
    err,         \* the exception that ended the run, "none" while there is none
    spelling_to_pronunciations,   \* the IPADict's data
    phonetic_anagrams_dict,       \* the PhoneticAnagramDict's data
    i,           \* number of pronounced words the report loop has handled
    anaphones,
    anaphones_unique_pronunciation,
    anaphones_nontrivial_unique_pronunciation,
    written,     \* names of the output files written so far
    fa_in,       \* find_anagrams called on its own: its arguments
    fa_out,      \* ... and its outcome
    nz_in,       \* a normaliser called on its own: its argument
    nz_out       \* ... and the results of applying it once and twice

vars == <<pc, doc, err, spelling_to_pronunciations, phonetic_anagrams_dict, i,
          anaphones, anaphones_unique_pronunciation,
          anaphones_nontrivial_unique_pronunciation, written,
          fa_in, fa_out, nz_in, nz_out>>

mainVars == <<pc, doc, err, spelling_to_pronunciations, phonetic_anagrams_dict, i,
              anaphones, anaphones_unique_pronunciation,
              anaphones_nontrivial_unique_pronunciation, written>>

---------------------------------------------------------------------------
(* Bounds of the model.                                                    *)

\* Entries of the per-language mapping of the input document.
MaxEntries == 2

\* Length of the strings given to the normalisers on their own.
MaxLen == 3

\* Items given to find_anagrams on its own.
MaxItems == 2

---------------------------------------------------------------------------
(* Characters.                                                             *)

Slash == 47
Colon == 58
Comma == 44
Space == 32
Hyphen == 45
Period == 46
DoubleQuote == 34
Apostrophe == 39
StressPrimary == 712
StressSecondary == 716

\* The characters clean_str_to_alphanum names: 'ˈˌ.-"\''
ExcludedChars ==
    {StressPrimary, StressSecondary, Period, Hyphen, DoubleQuote, Apostrophe}

\* str.isalpha on one character: ASCII letters, and the two IPA stress marks,
\* which Unicode classes as modifier letters (category Lm).
IsAlpha(c) ==
    \/ c \in 65..90
    \/ c \in 97..122
    \/ c \in {StressPrimary, StressSecondary}

Range(s) == {s[n] : n \in 1..Len(s)}

\* All strings over alphabet A of length at most n.
StringsUpTo(A, n) == UNION {[1..m -> A] : m \in 0..n}

---------------------------------------------------------------------------
(* Normalisation.                                                          *)

KeepChar(c) == IsAlpha(c) /\ c \notin ExcludedChars

clean_str_to_alphanum(word) == SelectSeq(word, KeepChar)

RECURSIVE lstrip(_, _)
lstrip(s, chars) ==
    IF s # <<>> /\ Head(s) \in chars THEN lstrip(Tail(s), chars) ELSE s

RECURSIVE rstrip(_, _)
rstrip(s, chars) ==
    IF s # <<>> /\ s[Len(s)] \in chars
    THEN rstrip(SubSeq(s, 1, Len(s) - 1), chars)
    ELSE s

\* str.strip(chars)
strip(s, chars) == rstrip(lstrip(s, chars), chars)

\* Mutant of normalize_pronunciation: the delimiters are cut off by position,
\* pronunciation[1:-1], whether or not they are there.
normalize_pronunciation_sliced(pronunciation) ==
    clean_str_to_alphanum(SubSeq(pronunciation, 2, Len(pronunciation) - 1))

normalize_pronunciation(pronunciation) ==
    clean_str_to_alphanum(strip(pronunciation, {Slash}))

\* Mutant of sorted_str: the characters are joined as they stand.
sorted_str_unsorted(word) == word

\* sorted_str: "".join(sorted(word)), characters in code point order.
sorted_str(word) == SortSeq(word, LAMBDA a, b : a < b)

\* The value types hold one normalised string each; equality and hashing are
\* on that string, so a value is modelled as its field s.
Spelling(s) == clean_str_to_alphanum(s)

Pronunciation(s) == normalize_pronunciation(s)

Spelling_sorted(self) == Spelling(sorted_str(self))

Pronunciation_sorted(self) == Pronunciation(sorted_str(self))

Spelling_is_anagram_of(self, other) == Spelling_sorted(self) = Spelling_sorted(other)

Pronunciation_is_anagram_of(self, other) ==
    Pronunciation_sorted(self) = Pronunciation_sorted(other)

PronouncedWord(spelling, pronunciation) ==
    [spelling |-> spelling, pronunciation |-> pronunciation]

json_safe_str(self) == self.spelling \o <<Colon>> \o self.pronunciation

---------------------------------------------------------------------------
(* Python containers.                                                      *)

\* dict: a sequence of [k, v] in insertion order.
DictKeys(d) == {d[n].k : n \in 1..Len(d)}

DictHas(d, key) == key \in DictKeys(d)

DictIndex(d, key) == CHOOSE n \in 1..Len(d) : d[n].k = key

\* d[key], for a key that is present
DictGet(d, key) == d[DictIndex(d, key)].v

\* d[key] = value: replaces the value of a present key where it stands,
\* appends a new key.
DictSet(d, key, value) ==
    IF DictHas(d, key)
    THEN [d EXCEPT ![DictIndex(d, key)].v = value]
    ELSE Append(d, [k |-> key, v |-> value])

\* dict(pairs), {k: v for ...}: the pairs assigned in order.
RECURSIVE DictOf(_)
DictOf(pairs) ==
    IF pairs = <<>> THEN <<>>
    ELSE LET n == Len(pairs)
         IN  DictSet(DictOf(SubSeq(pairs, 1, n - 1)), pairs[n].k, pairs[n].v)

\* list(a_set): the elements once each, in an order the hashes decide (str
\* hashes are randomised per process): any order.
ListsOfSet(S) ==
    {f \in [1..Cardinality(S) -> S] : \A a, b \in DOMAIN f : a # b => f[a] # f[b]}

StartsWith(s, prefix) ==
    Len(s) >= Len(prefix) /\ SubSeq(s, 1, Len(prefix)) = prefix

\* str.split(sep): the pieces between the occurrences of sep, left to right.
RECURSIVE SplitFrom(_, _, _)
SplitFrom(s, sep, piece) ==
    IF s = <<>> THEN <<piece>>
    ELSE IF StartsWith(s, sep)
         THEN <<piece>> \o SplitFrom(SubSeq(s, Len(sep) + 1, Len(s)), sep, <<>>)
         ELSE SplitFrom(Tail(s), sep, Append(piece, Head(s)))

split(s, sep) == SplitFrom(s, sep, <<>>)

\* sep.join(strings)
RECURSIVE join(_, _)
join(sep, strings) ==
    IF strings = <<>> THEN <<>>
    ELSE IF Len(strings) = 1 THEN strings[1]
    ELSE strings[1] \o sep \o join(sep, Tail(strings))

CommaSpace == <<Comma, Space>>

\* The concatenation of a sequence of sequences.
RECURSIVE Flat(_)
Flat(ss) == IF ss = <<>> THEN <<>> ELSE Head(ss) \o Flat(Tail(ss))

---------------------------------------------------------------------------
(* JSON values as json.load returns them: t is the Python type, kids the   *)
(* elements of a list or the [k, v] items of a dict, s the characters of a *)
(* str.                                                                    *)

JStr(s) == [t |-> "str", kids |-> <<>>, s |-> s]
JList(elems) == [t |-> "list", kids |-> elems, s |-> <<>>]
JDict(items) == [t |-> "dict", kids |-> items, s |-> <<>>]
JInt == [t |-> "int", kids |-> <<>>, s |-> <<>>]
JNone == [t |-> "NoneType", kids |-> <<>>, s |-> <<>>]

\* iter(v): the elements of a list, the keys of a dict, the characters of a str.
PyIterable(v) == v.t \in {"list", "dict", "str"}

PyIter(v) ==
    CASE v.t = "list" -> v.kids
      [] v.t = "dict" -> [n \in 1..Len(v.kids) |-> JStr(v.kids[n].k)]
      [] v.t = "str"  -> [n \in 1..Len(v.s) |-> JStr(<<v.s[n]>>)]

Raised(e) == [err |-> e, value |-> <<>>]
Returned(x) == [err |-> "none", value |-> x]

---------------------------------------------------------------------------
(* deduplicate_pronunciations                                              *)

\* Mutant of deduplicate_pronunciations: of the words that share a
\* pronunciation the last is kept, not the first.
RECURSIVE deduplicate_keeping_last(_)
deduplicate_keeping_last(words) ==
    IF words = <<>> THEN <<>>
    ELSE LET rest == deduplicate_keeping_last(Tail(words))
             later == {rest[m].pronunciation : m \in 1..Len(rest)}
         IN  IF Head(words).pronunciation \notin later
             THEN <<Head(words)>> \o rest
             ELSE rest

RECURSIVE deduplicate_pronunciations(_)
deduplicate_pronunciations(words) ==
    IF words = <<>> THEN <<>>
    ELSE LET n == Len(words)
             unique == deduplicate_pronunciations(SubSeq(words, 1, n - 1))
             seen_pronunciations == {unique[m].pronunciation : m \in 1..Len(unique)}
         IN  IF words[n].pronunciation \notin seen_pronunciations
             THEN Append(unique, words[n])
             ELSE unique

---------------------------------------------------------------------------
(* IPADict                                                                 *)

\* The value of one item of the comprehension of from_file, before list():
\* set(Pronunciation(x) for x in v.split(', ')).
PronunciationSet(v) == {Pronunciation(x) : x \in Range(split(v, CommaSpace))}

\* Mutant of IPASets: the variants of raw spellings that normalise to one
\* Spelling are merged.
IPASetsMerging(items) ==
    DictOf([n \in 1..Len(items) |->
              [k |-> Spelling(items[n].k),
               v |-> UNION {PronunciationSet(items[m].v.s) :
                              m \in {m \in 1..Len(items) :
                                       Spelling(items[m].k) = Spelling(items[n].k)}}]])

\* The comprehension's dict with sets for values: the keys and their order
\* do not depend on the order list() gives each set.
IPASets(items) ==
    DictOf([n \in 1..Len(items) |->
              [k |-> Spelling(items[n].k), v |-> PronunciationSet(items[n].v.s)]])

\* The dicts that differ from a dict of sets only in each value being some
\* list(set).
RECURSIVE ListedValues(_)
ListedValues(sets) ==
    IF sets = <<>> THEN {<<>>}
    ELSE LET n == Len(sets)
         IN  {Append(front, [k |-> sets[n].k, v |-> list]) :
                front \in ListedValues(SubSeq(sets, 1, n - 1)),
                list \in ListsOfSet(sets[n].v)}

\* Mutant of from_file: d = json.load(fp)[language][0], the first element
\* taken without the check that it is the only one.
from_file_first_element(document, language) ==
    IF ~DictHas(document, language) THEN {Raised("KeyError")}
    ELSE LET value == DictGet(document, language)
         IN  IF ~PyIterable(value) THEN {Raised("TypeError")}
             ELSE IF Len(PyIter(value)) = 0 THEN {Raised("IndexError")}
             ELSE LET d == PyIter(value)[1]
                  IN  IF d.t # "dict" THEN {Raised("AttributeError")}
                      ELSE IF \E n \in 1..Len(d.kids) : d.kids[n].v.t # "str"
                           THEN {Raised("AttributeError")}
                      ELSE {Returned(data) : data \in ListedValues(IPASets(d.kids))}

\* IPADict.from_file past open(): the outcomes of the call on a decoded
\* document, one per order list(set(...)) may give.
from_file(document, language) ==
    IF ~DictHas(document, language) THEN {Raised("KeyError")}
    ELSE LET value == DictGet(document, language)
         IN  IF ~PyIterable(value) THEN {Raised("TypeError")}
             ELSE IF Len(PyIter(value)) # 1 THEN {Raised("ValueError")}
             ELSE LET d == PyIter(value)[1]
                  IN  IF d.t # "dict" THEN {Raised("AttributeError")}
                      ELSE IF \E n \in 1..Len(d.kids) : d.kids[n].v.t # "str"
                           THEN {Raised("AttributeError")}
                      ELSE {Returned(data) : data \in ListedValues(IPASets(d.kids))}

\* Mutant of flatten_to_pronounced_words: entries whose spelling is empty are
\* skipped.
flatten_skipping_empty(data) ==
    Flat([n \in 1..Len(data) |->
            IF data[n].k = <<>> THEN <<>>
            ELSE [m \in 1..Len(data[n].v) |-> PronouncedWord(data[n].k, data[n].v[m])]])

\* flatten_to_pronounced_words, the words the generator yields, in order.
flatten_to_pronounced_words(data) ==
    Flat([n \in 1..Len(data) |->
            [m \in 1..Len(data[n].v) |-> PronouncedWord(data[n].k, data[n].v[m])]])

---------------------------------------------------------------------------
(* find_anagrams                                                           *)

\* Mutant of GroupByKey: d[sorted_str(s)] = [w], each item replaces its group.
RECURSIVE GroupByKeyReplacing(_)
GroupByKeyReplacing(pairs) ==
    IF pairs = <<>> THEN <<>>
    ELSE LET n == Len(pairs)
         IN  DictSet(GroupByKeyReplacing(SubSeq(pairs, 1, n - 1)),
                     sorted_str(pairs[n].s), <<pairs[n].w>>)

\* The loop of find_anagrams over items paired with their key strings:
\* d[sorted_str(s)].append(w) on a defaultdict(list).
RECURSIVE GroupByKey(_)
GroupByKey(pairs) ==
    IF pairs = <<>> THEN <<>>
    ELSE LET n == Len(pairs)
             d == GroupByKey(SubSeq(pairs, 1, n - 1))
             letters == sorted_str(pairs[n].s)
             word_list == IF DictHas(d, letters) THEN DictGet(d, letters) ELSE <<>>
         IN  DictSet(d, letters, Append(word_list, pairs[n].w))

\* The returned comprehension: {Pronunciation(letters): word_list for ...}.
WrapKeys(d) ==
    DictOf([n \in 1..Len(d) |-> [k |-> Pronunciation(d[n].k), v |-> d[n].v]])

\* Python's None.
None == "None"

\* find_anagrams(spellings, key).  A key function is one that reads an
\* attribute of the item and is modelled as the attribute's name; an item w
\* that is a str is modelled as JStr(w).
find_anagrams(spellings, key) ==
    IF key = None /\ \E n \in 1..Len(spellings) : spellings[n].t # "str"
    THEN Raised("TypeError")
    ELSE LET pairs == [n \in 1..Len(spellings) |->
                         [w |-> spellings[n],
                          s |-> IF key # None THEN spellings[n][key]
                                ELSE spellings[n].s]]
         IN  Returned(WrapKeys(GroupByKey(pairs)))

---------------------------------------------------------------------------
(* PhoneticAnagramDict                                                     *)

\* get_pronunciation_str(x) returns x.pronunciation.s: the attribute it reads.
get_pronunciation_str == "pronunciation"

from_IPADict(ipa_dict) ==
    find_anagrams(flatten_to_pronounced_words(ipa_dict), get_pronunciation_str)

\* Mutant of PhoneticAnagramDict_getitem: self.data[pronunciation], the
\* argument looked up as it is.
PhoneticAnagramDict_getitem_unsorted(data, pronunciation) ==
    IF DictHas(data, pronunciation)
    THEN Returned(DictGet(data, pronunciation))
    ELSE Raised("KeyError")

\* __getitem__ with a Pronunciation for its argument, as main() calls it.
PhoneticAnagramDict_getitem(data, pronunciation) ==
    IF DictHas(data, Pronunciation_sorted(pronunciation))
    THEN Returned(DictGet(data, Pronunciation_sorted(pronunciation)))
    ELSE Raised("KeyError")

---------------------------------------------------------------------------
(* The inputs the model runs on.                                           *)

\* Raw spellings: "ab", "a-b" (normalises to "ab"), "ba", and "-", which
\* normalises to "".
RawSpellings == {<<97, 98>>, <<97, 45, 98>>, <<98, 97>>, <<45>>}

\* Raw pronunciation strings: "/ab/", "/a/", "/-/" (normalises to ""),
\* "/ab/, /ˈab/" (two variants, one value) and "/ab/, /ba/".
RawPronunciations ==
    { <<47, 97, 98, 47>>,
      <<47, 97, 47>>,
      <<47, 45, 47>>,
      <<47, 97, 98, 47, 44, 32, 47, 712, 97, 98, 47>>,
      <<47, 97, 98, 47, 44, 32, 47, 98, 97, 47>> }

RawItems == {[k |-> k, v |-> JStr(v)] : k \in RawSpellings, v \in RawPronunciations}

\* The items of a JSON object: its keys are distinct.
RawMappings ==
    UNION {{m \in [1..n -> RawItems] :
              \A a, b \in 1..n : a # b => m[a].k # m[b].k} : n \in 0..MaxEntries}

OneItem == <<[k |-> <<97, 98>>, v |-> JStr(<<47, 97, 98, 47>>)]>>

TwoItems == OneItem \o <<[k |-> <<98, 97>>, v |-> JStr(<<47, 98, 97, 47>>)]>>

\* Per-language values of the expected shape: [ { spelling: "variants" } ].
GoodValues == {JList(<<JDict(m)>>) : m \in RawMappings}

\* Per-language values that are not one mapping in a one-element array.
BadShapes ==
    { JList(<<>>),
      JList(<<JDict(OneItem), JDict(OneItem)>>),
      JList(<<JStr(<<97, 98>>)>>),
      JList(<<JInt>>),
      JList(<<JList(<<>>)>>),
      JDict(<<>>),
      JDict(OneItem),
      JDict(TwoItems),
      JStr(<<97>>),
      JStr(<<97, 98>>),
      JInt,
      JNone }

\* One mapping in a one-element array, with a value that is not a string.
BadItems == {JList(<<JDict(OneItem \o <<[k |-> <<98, 97>>, v |-> JInt]>>)>>)}

lang == "en_US"

Documents ==
    {<<[k |-> lang, v |-> value]>> : value \in GoodValues \cup BadShapes \cup BadItems}
    \cup {<<>>, <<[k |-> "fr_FR", v |-> JList(<<JDict(OneItem)>>)]>>}

---------------------------------------------------------------------------
(* main()                                                                  *)

MainInit ==
    /\ pc = "load"
    /\ doc \in Documents
    /\ err = "none"
    /\ spelling_to_pronunciations = <<>>
    /\ phonetic_anagrams_dict = <<>>
    /\ i = 0
    /\ anaphones = <<>>
    /\ anaphones_unique_pronunciation = <<>>
    /\ anaphones_nontrivial_unique_pronunciation = <<>>
    /\ written = <<>>
    /\ fa_in = <<>> /\ fa_out = <<>> /\ nz_in = <<>> /\ nz_out = <<>>

\* spelling_to_pronunciations = IPADict.from_file(dict_filename, lang)
Load ==
    /\ pc = "load"
    /\ \E out \in from_file(doc, lang) :
          IF out.err # "none"
          THEN /\ pc' = "error"
               /\ err' = out.err
               /\ UNCHANGED spelling_to_pronunciations
          ELSE /\ pc' = "index"
               /\ spelling_to_pronunciations' = out.value
               /\ UNCHANGED err
    /\ UNCHANGED <<doc, phonetic_anagrams_dict, i, anaphones,
                   anaphones_unique_pronunciation,
                   anaphones_nontrivial_unique_pronunciation, written,
                   fa_in, fa_out, nz_in, nz_out>>

\* phonetic_anagrams_dict = PhoneticAnagramDict.from_IPADict(...), and the
\* three empty report dicts.
Index ==
    /\ pc = "index"
    /\ LET out == from_IPADict(spelling_to_pronunciations)
       IN  IF out.err # "none"
           THEN /\ pc' = "error"
                /\ err' = out.err
                /\ UNCHANGED phonetic_anagrams_dict
           ELSE /\ pc' = "report"
                /\ phonetic_anagrams_dict' = out.value
                /\ UNCHANGED err
    /\ UNCHANGED <<doc, spelling_to_pronunciations, i, anaphones,
                   anaphones_unique_pronunciation,
                   anaphones_nontrivial_unique_pronunciation, written,
                   fa_in, fa_out, nz_in, nz_out>>

\* Mutant of Nontrivial: len(anas) >= 1.
NontrivialFromOne(anas) == Len(anas) >= 1

\* The test that admits an entry to the third report: len(anas) > 1.
Nontrivial(anas) == Len(anas) > 1

JoinedKeys(anas) == join(CommaSpace, [n \in 1..Len(anas) |-> json_safe_str(anas[n])])

\* One iteration of the loop over flatten_to_pronounced_words().
ReportStep ==
    /\ pc = "report"
    /\ i < Len(flatten_to_pronounced_words(spelling_to_pronunciations))
    /\ LET pronounced_word == flatten_to_pronounced_words(spelling_to_pronunciations)[i + 1]
           got == PhoneticAnagramDict_getitem(phonetic_anagrams_dict,
                                              pronounced_word.pronunciation)
           key_str == json_safe_str(pronounced_word)
           unique == deduplicate_pronunciations(got.value)
       IN  IF got.err # "none"
           THEN /\ pc' = "error"
                /\ err' = got.err
                /\ UNCHANGED <<i, anaphones, anaphones_unique_pronunciation,
                               anaphones_nontrivial_unique_pronunciation>>
           ELSE /\ anaphones' = DictSet(anaphones, key_str, JoinedKeys(got.value))
                /\ anaphones_unique_pronunciation' =
                      DictSet(anaphones_unique_pronunciation, key_str, JoinedKeys(unique))
                /\ anaphones_nontrivial_unique_pronunciation' =
                      IF Nontrivial(unique)
                      THEN DictSet(anaphones_nontrivial_unique_pronunciation,
                                   key_str, JoinedKeys(unique))
                      ELSE anaphones_nontrivial_unique_pronunciation
                /\ i' = i + 1
                /\ UNCHANGED <<pc, err>>
    /\ UNCHANGED <<doc, spelling_to_pronunciations, phonetic_anagrams_dict, written,
                   fa_in, fa_out, nz_in, nz_out>>

\* The generator is exhausted: on to writing the files.
ReportEnd ==
    /\ pc = "report"
    /\ i = Len(flatten_to_pronounced_words(spelling_to_pronunciations))
    /\ pc' = "write"
    /\ UNCHANGED <<doc, err, spelling_to_pronunciations, phonetic_anagrams_dict, i,
                   anaphones, anaphones_unique_pronunciation,
                   anaphones_nontrivial_unique_pronunciation, written,
                   fa_in, fa_out, nz_in, nz_out>>

dicts_files ==
    << "anaphones.json",
       "anaphones_unique_pronunciation.json",
       "anaphones_nontrivial_unique_pronunciation.json" >>

\* One iteration of the loop over dicts_files.
WriteFile ==
    /\ pc = "write"
    /\ written' = Append(written, dicts_files[Len(written) + 1])
    /\ pc' = IF Len(written') = Len(dicts_files) THEN "done" ELSE "write"
    /\ UNCHANGED <<doc, err, spelling_to_pronunciations, phonetic_anagrams_dict, i,
                   anaphones, anaphones_unique_pronunciation,
                   anaphones_nontrivial_unique_pronunciation,
                   fa_in, fa_out, nz_in, nz_out>>

Init == MainInit

Next == Load \/ Index \/ ReportStep \/ ReportEnd \/ WriteFile

\* main() run on every document of Documents.
Spec == Init /\ [][Next]_vars

---------------------------------------------------------------------------
(* find_anagrams called on its own, on items that are strings or other     *)
(* objects, with and without a key function.                               *)

FAChars == {97, 98, 45}

\* An item: a str, or an object whose attribute s the key function reads.
FAItems ==
    {[t |-> t, kids |-> <<>>, s |-> s] :
        t \in {"str", "object"}, s \in StringsUpTo(FAChars, 2)}

\* A key function on such objects: lambda x: x.s.
attr_s == "s"

FAInit ==
    /\ fa_in \in [spellings : UNION {[1..n -> FAItems] : n \in 0..MaxItems},
                  key : {None, attr_s}]
    /\ fa_out = <<>>
    /\ nz_in = <<>> /\ nz_out = <<>>
    /\ pc = "idle" /\ doc = <<>> /\ err = "none"
    /\ spelling_to_pronunciations = <<>> /\ phonetic_anagrams_dict = <<>>
    /\ i = 0 /\ anaphones = <<>> /\ anaphones_unique_pronunciation = <<>>
    /\ anaphones_nontrivial_unique_pronunciation = <<>> /\ written = <<>>

CallFindAnagrams ==
    /\ fa_out = <<>>
    /\ fa_out' = <<find_anagrams(fa_in.spellings, fa_in.key)>>
    /\ UNCHANGED <<fa_in, nz_in, nz_out>>
    /\ UNCHANGED mainVars

SpecFA == FAInit /\ [][CallFindAnagrams]_vars

---------------------------------------------------------------------------
(* The normalisers called on their own, once and then again on their own   *)
(* result.                                                                 *)

NormChars == {97, 98, Slash, Hyphen, StressPrimary}

NormInit ==
    /\ nz_in \in StringsUpTo(NormChars, MaxLen)
    /\ nz_out = <<>>
    /\ fa_in = <<>> /\ fa_out = <<>>
    /\ pc = "idle" /\ doc = <<>> /\ err = "none"
    /\ spelling_to_pronunciations = <<>> /\ phonetic_anagrams_dict = <<>>
    /\ i = 0 /\ anaphones = <<>> /\ anaphones_unique_pronunciation = <<>>
    /\ anaphones_nontrivial_unique_pronunciation = <<>> /\ written = <<>>

Normalise ==
    /\ nz_out = <<>>
    /\ nz_out' = <<[clean |-> clean_str_to_alphanum(nz_in),
                    norm  |-> normalize_pronunciation(nz_in)]>>
    /\ UNCHANGED <<nz_in, fa_in, fa_out>>
    /\ UNCHANGED mainVars

NormaliseAgain ==
    /\ Len(nz_out) = 1
    /\ nz_out' = Append(nz_out, [clean |-> clean_str_to_alphanum(nz_out[1].clean),
                                 norm  |-> normalize_pronunciation(nz_out[1].norm)])
    /\ UNCHANGED <<nz_in, fa_in, fa_out>>
    /\ UNCHANGED mainVars

NormNext == Normalise \/ NormaliseAgain

SpecNorm == NormInit /\ [][NormNext]_vars

---------------------------------------------------------------------------
(* Claims about the normalisers (under SpecNorm).                          *)

\* C7: normalisation is idempotent.  Applying clean_str_to_alphanum to its
\* own result gives that result again, the same holds of
\* normalize_pronunciation, and wrapping an already normalised string in
\* Spelling or Pronunciation gives the value it came from.
C7_NormalizationIdempotent ==
    Len(nz_out) = 2 =>
        /\ nz_out[2].clean = nz_out[1].clean
        /\ nz_out[2].norm = nz_out[1].norm
        /\ Spelling(nz_out[1].clean) = Spelling(nz_in)
        /\ Pronunciation(nz_out[1].norm) = Pronunciation(nz_in)

\* Both normalisers changed their argument, the strip of normalize_pronunciation
\* had a delimiter to take off, and something was left.
C7_Witness ==
    /\ Len(nz_out) = 2
    /\ nz_in # <<>>
    /\ Head(nz_in) = Slash
    /\ Hyphen \in Range(nz_in)
    /\ nz_out[1].clean # <<>>
    /\ nz_out[1].norm # <<>>

---------------------------------------------------------------------------
(* Claims about find_anagrams on its own (under SpecFA).                   *)

Count(seq, x) == Cardinality({n \in 1..Len(seq) : seq[n] = x})

GroupedItems(d) == Flat([n \in 1..Len(d) |-> d[n].v])

\* C1: grouping completeness.  When find_anagrams returns, every item of the
\* input occurs in the groups of the returned mapping as often as in the
\* input, and the groups hold nothing else.
C1_GroupingComplete ==
    (fa_out # <<>> /\ fa_out[1].err = "none") =>
        LET grouped == GroupedItems(fa_out[1].value)
        IN  /\ Len(grouped) = Len(fa_in.spellings)
            /\ \A x \in Range(fa_in.spellings) :
                   Count(grouped, x) = Count(fa_in.spellings, x)

---------------------------------------------------------------------------
(* Claims about main() (under Spec).                                       *)

\* The pronounced words of the loaded dictionary, in the order of the loop;
\* the first i of them have been handled.
Words == flatten_to_pronounced_words(spelling_to_pronunciations)

\* The members of a report's value, and the parts of a member.
Members(value) == split(value, CommaSpace)

SpellingOf(member) == split(member, <<Colon>>)[1]

PronunciationOf(member) == split(member, <<Colon>>)[2]

\* a and b hold the same characters, each as often.
IsLetterAnagram(a, b) ==
    /\ Len(a) = Len(b)
    /\ \A c \in Range(a) : Count(a, c) = Count(b, c)

LoopFinished == pc \in {"write", "done"}

\* C2: the report invariant.  Every pronounced word the loop has handled has
\* an entry in anaphones under its composite key, and that key is one of the
\* members of the entry's value; once the loop has finished, every word of
\* the flattened dictionary has been handled.
C2_ReportInvariant ==
    /\ \A n \in 1..i :
          LET key == json_safe_str(Words[n])
          IN  /\ DictHas(anaphones, key)
              /\ key \in Range(Members(DictGet(anaphones, key)))
    /\ LoopFinished => i = Len(Words)

\* The loop has finished and some word's entry lists another word besides.
C2_Witness ==
    /\ pc = "done"
    /\ \E n \in 1..Len(Words) :
          /\ n < Len(Words)
          /\ Len(Members(DictGet(anaphones, json_safe_str(Words[n])))) >= 2

\* C3: mutual listing.  Of two handled words whose pronunciations are letter
\* anagrams of each other, each one's composite key is a member of the other's
\* entry in anaphones; and every member of a word's entry is the composite
\* key of a word of the dictionary whose pronunciation is a letter anagram of
\* that word's.
C3_MutualListing ==
    \A n \in 1..i :
       LET w == Words[n]
           members == Members(DictGet(anaphones, json_safe_str(w)))
       IN  /\ \A m \in 1..i :
                 IsLetterAnagram(w.pronunciation, Words[m].pronunciation) =>
                     /\ json_safe_str(Words[m]) \in Range(members)
                     /\ json_safe_str(w) \in
                          Range(Members(DictGet(anaphones, json_safe_str(Words[m]))))
           /\ \A x \in Range(members) :
                 /\ \E v \in Range(Words) : json_safe_str(v) = x
                 /\ IsLetterAnagram(PronunciationOf(x), w.pronunciation)

\* Two words with different pronunciations that are anagrams list each other,
\* beside a word that is an anagram of neither.
C3_Witness ==
    /\ pc = "done"
    /\ \E n, m, o \in 1..Len(Words) :
          /\ Words[n].pronunciation # Words[m].pronunciation
          /\ IsLetterAnagram(Words[n].pronunciation, Words[m].pronunciation)
          /\ ~IsLetterAnagram(Words[n].pronunciation, Words[o].pronunciation)
          /\ json_safe_str(Words[m]) \in
               Range(Members(DictGet(anaphones, json_safe_str(Words[n]))))

\* The first member of a report value with pronunciation p.
FirstWith(members, p) ==
    members[CHOOSE n \in 1..Len(members) :
               /\ PronunciationOf(members[n]) = p
               /\ \A m \in 1..(n - 1) : PronunciationOf(members[m]) # p]

\* C4: the unique-pronunciation report.  For every handled word, the members
\* of its entry in anaphones_unique_pronunciation are members of its entry in
\* anaphones, no two of them have the same pronunciation, every pronunciation
\* of the anaphones entry is kept, and the member kept for a pronunciation is
\* the first member of the anaphones entry with that pronunciation.
C4_UniquePronunciation ==
    \A n \in 1..i :
       LET key == json_safe_str(Words[n])
           all == Members(DictGet(anaphones, key))
           kept == Members(DictGet(anaphones_unique_pronunciation, key))
       IN  /\ DictHas(anaphones_unique_pronunciation, key)
           /\ Range(kept) \subseteq Range(all)
           /\ \A a, b \in 1..Len(kept) :
                 a # b => PronunciationOf(kept[a]) # PronunciationOf(kept[b])
           /\ \A a \in 1..Len(all) :
                 \E b \in 1..Len(kept) :
                    PronunciationOf(kept[b]) = PronunciationOf(all[a])
           /\ \A b \in 1..Len(kept) :
                 kept[b] = FirstWith(all, PronunciationOf(kept[b]))

\* Some entry of anaphones has two members with one pronunciation, and the
\* deduplicated entry still has two members.
C4_Witness ==
    /\ pc = "done"
    /\ \E n \in 1..Len(Words) :
          LET key == json_safe_str(Words[n])
              all == Members(DictGet(anaphones, key))
              kept == Members(DictGet(anaphones_unique_pronunciation, key))
          IN  /\ Len(kept) < Len(all)
              /\ Len(kept) >= 2
              /\ \E a, b \in 1..Len(all) :
                    /\ a < b
                    /\ PronunciationOf(all[a]) = PronunciationOf(all[b])

\* C5: the nontrivial report.  When the loop has finished, the keys of
\* anaphones_nontrivial_unique_pronunciation are the keys of
\* anaphones_unique_pronunciation whose value has more than one member, and
\* under each the two reports hold the same value.
C5_NontrivialReport ==
    LoopFinished =>
        /\ DictKeys(anaphones_nontrivial_unique_pronunciation) =
             {key \in DictKeys(anaphones_unique_pronunciation) :
                Len(Members(DictGet(anaphones_unique_pronunciation, key))) > 1}
        /\ \A key \in DictKeys(anaphones_nontrivial_unique_pronunciation) :
              DictGet(anaphones_nontrivial_unique_pronunciation, key) =
              DictGet(anaphones_unique_pronunciation, key)

\* The loop has finished with some entries admitted and some left out.
C5_Witness ==
    /\ pc = "done"
    /\ anaphones_nontrivial_unique_pronunciation # <<>>
    /\ Len(anaphones_nontrivial_unique_pronunciation) <
         Len(anaphones_unique_pronunciation)

---------------------------------------------------------------------------
(* Claims about loading and indexing (under Spec).                         *)

HasLanguage == DictHas(doc, lang)

\* The per-language value is one mapping in a one-element array.
ExactlyOneMapping(value) ==
    /\ value.t = "list"
    /\ Len(value.kids) = 1
    /\ value.kids[1].t = "dict"

BadShape(document) ==
    /\ DictHas(document, lang)
    /\ ~ExactlyOneMapping(DictGet(document, lang))

\* The document is as the program expects it: one mapping, of strings.
WellFormed(document) ==
    /\ DictHas(document, lang)
    /\ ExactlyOneMapping(DictGet(document, lang))
    /\ \A n \in 1..Len(DictGet(document, lang).kids[1].kids) :
          DictGet(document, lang).kids[1].kids[n].v.t = "str"

\* The [k, v] items of the mapping of a well-formed document.
InputItems == DictGet(doc, lang).kids[1].kids

\* The number of elements, keys or characters of a value.
Size(value) == IF value.t = "str" THEN Len(value.s) ELSE Len(value.kids)

\* The exception a per-language value of the wrong shape ends in.
ShapeError(value) ==
    IF value.t \notin {"list", "dict", "str"} THEN "TypeError"
    ELSE IF Size(value) # 1 THEN "ValueError"
    ELSE "AttributeError"

\* C6 as stated: from_file fails with a KeyError when the language is absent,
\* and for every per-language value that is not exactly one mapping object it
\* fails with one and the same kind of error: the error of this run is the
\* error of every document of the wrong shape.
C6_OneFormatError ==
    pc # "load" =>
        /\ ~HasLanguage => (pc = "error" /\ err = "KeyError")
        /\ BadShape(doc) =>
              /\ pc = "error"
              /\ \A d \in Documents :
                    BadShape(d) => \A out \in from_file(d, lang) : out.err = err

\* C6 as amended: from_file fails with a KeyError when the language is
\* absent; for a per-language value that is not exactly one mapping object it
\* never returns a dictionary, and fails with a TypeError when the value
\* cannot be iterated (a number, null), with a ValueError when it has no or
\* several elements, keys or characters, and with an AttributeError when its
\* one element (of an array), key (of a bare object) or character (of a
\* string) is not a mapping.
C6_LoadErrors ==
    pc # "load" =>
        /\ ~HasLanguage => (pc = "error" /\ err = "KeyError")
        /\ BadShape(doc) =>
              (pc = "error" /\ err = ShapeError(DictGet(doc, lang)))

\* A bare object with one key has ended in an AttributeError.
C6_Witness ==
    /\ pc = "error"
    /\ BadShape(doc)
    /\ DictGet(doc, lang).t = "dict"
    /\ err = "AttributeError"

\* The pronounced words of the loaded dictionary, read off its entries.
AllWords ==
    UNION {{PronouncedWord(spelling_to_pronunciations[n].k, p) :
              p \in Range(spelling_to_pronunciations[n].v)} :
           n \in 1..Len(spelling_to_pronunciations)}

Indexed == pc \in {"report", "write", "done"}

\* Some spelling of a well-formed document normalises to the empty string.
HasEmptySpelling ==
    /\ WellFormed(doc)
    /\ \E n \in 1..Len(InputItems) : Spelling(InputItems[n].k) = <<>>

\* C8 as stated: on a document with a spelling that normalises to the empty
\* string no stage raises, and every word with the empty spelling is in the
\* group under the empty sorted key.
C8_EmptySpellingUnderEmptyKey ==
    HasEmptySpelling =>
        /\ pc # "error"
        /\ Indexed =>
              \A w \in AllWords :
                 w.spelling = <<>> =>
                     /\ DictHas(phonetic_anagrams_dict, <<>>)
                     /\ w \in Range(DictGet(phonetic_anagrams_dict, <<>>))

\* C8 as amended: on a document with a spelling that normalises to the empty
\* string no stage raises; the empty spelling is kept, and its words are
\* grouped by their pronunciations as any word is; and the words whose
\* pronunciation normalises to the empty string are grouped with each other,
\* and with no other word, under the empty sorted key.
C8_EmptyResults ==
    HasEmptySpelling =>
        /\ pc # "error"
        /\ Indexed =>
              /\ \E w \in AllWords : w.spelling = <<>>
              /\ \A w \in AllWords :
                    w.spelling = <<>> =>
                        /\ DictHas(phonetic_anagrams_dict, sorted_str(w.pronunciation))
                        /\ w \in Range(DictGet(phonetic_anagrams_dict,
                                               sorted_str(w.pronunciation)))
              /\ \A w \in AllWords :
                    w.pronunciation = <<>> =>
                        /\ DictHas(phonetic_anagrams_dict, <<>>)
                        /\ Range(DictGet(phonetic_anagrams_dict, <<>>)) =
                             {v \in AllWords : v.pronunciation = <<>>}
        /\ LoopFinished =>
              \A w \in AllWords : DictHas(anaphones, json_safe_str(w))

\* The run is over, and a word with the empty spelling and the empty
\* pronunciation shares the empty key's group with another word.
C8_Witness ==
    /\ pc = "done"
    /\ HasEmptySpelling
    /\ \E w, v \in AllWords :
          /\ w # v
          /\ w.spelling = <<>>
          /\ w.pronunciation = <<>>
          /\ v.pronunciation = <<>>
          /\ {w, v} \subseteq Range(DictGet(phonetic_anagrams_dict, <<>>))

\* C9: the index is a partition.  Every word of the loaded dictionary is in
\* exactly one group of the PhoneticAnagramDict, once, and that group's key is
\* the word's sorted pronunciation; the groups hold words of the dictionary
\* only; there are as many groups as there are distinct sorted pronunciations,
\* so wrapping the keys has merged none; and no lookup of the report loop
\* raises: a run ends in a KeyError only when the language is absent.
C9_IndexPartition ==
    /\ Indexed =>
          /\ \A w \in AllWords :
                /\ Cardinality({n \in 1..Len(phonetic_anagrams_dict) :
                                  w \in Range(phonetic_anagrams_dict[n].v)}) = 1
                /\ DictHas(phonetic_anagrams_dict, Pronunciation_sorted(w.pronunciation))
                /\ Count(DictGet(phonetic_anagrams_dict,
                                 Pronunciation_sorted(w.pronunciation)), w) = 1
          /\ \A n \in 1..Len(phonetic_anagrams_dict) :
                /\ Range(phonetic_anagrams_dict[n].v) \subseteq AllWords
                /\ phonetic_anagrams_dict[n].v # <<>>
          /\ Len(phonetic_anagrams_dict) = Cardinality(DictKeys(phonetic_anagrams_dict))
          /\ Len(phonetic_anagrams_dict) =
                Cardinality({sorted_str(w.pronunciation) : w \in AllWords})
    /\ (pc = "error" /\ err = "KeyError") => ~HasLanguage
    /\ WellFormed(doc) => pc # "error"

\* The run is over with two groups, one of them of words whose pronunciations
\* differ, one of which is not sorted.
C9_Witness ==
    /\ pc = "done"
    /\ Len(phonetic_anagrams_dict) >= 2
    /\ \E w, v \in AllWords :
          /\ w.pronunciation # v.pronunciation
          /\ Pronunciation_sorted(w.pronunciation) = Pronunciation_sorted(v.pronunciation)

\* The last item of the input mapping whose spelling normalises to S.
LastRaw(S) ==
    InputItems[CHOOSE n \in 1..Len(InputItems) :
                  /\ Spelling(InputItems[n].k) = S
                  /\ \A m \in (n + 1)..Len(InputItems) : Spelling(InputItems[m].k) # S]

\* The words the input yields: each Spelling with the variants of the last
\* raw spelling that normalises to it.
LastWords ==
    UNION {{PronouncedWord(Spelling(InputItems[n].k), p) :
              p \in PronunciationSet(LastRaw(Spelling(InputItems[n].k)).v.s)} :
           n \in 1..Len(InputItems)}

ReportMembers(report) ==
    UNION {Range(Members(report[n].v)) : n \in 1..Len(report)}

\* C10: spelling collisions on load.  The loaded dictionary has one entry for
\* each Spelling the raw spellings normalise to; the entry's list holds, once
\* each, the normalised variants of the last raw spelling that normalises to
\* it, and nothing of the earlier ones; the flattened words are those of
\* these entries; and when the loop has finished, the keys and the members of
\* the reports are composite keys of these words only.
C10_SpellingCollision ==
    (pc \in {"index", "report", "write", "done"}) =>
        /\ DictKeys(spelling_to_pronunciations) =
              {Spelling(InputItems[n].k) : n \in 1..Len(InputItems)}
        /\ Len(spelling_to_pronunciations) = Cardinality(DictKeys(spelling_to_pronunciations))
        /\ \A n \in 1..Len(spelling_to_pronunciations) :
              LET entry == spelling_to_pronunciations[n]
              IN  /\ Range(entry.v) = PronunciationSet(LastRaw(entry.k).v.s)
                  /\ Len(entry.v) = Cardinality(Range(entry.v))
        /\ Range(Words) = LastWords
        /\ Len(Words) = Cardinality(LastWords)
        /\ LoopFinished =>
              LET keys == {json_safe_str(w) : w \in LastWords}
              IN  /\ DictKeys(anaphones) = keys
                  /\ DictKeys(anaphones_unique_pronunciation) = keys
                  /\ DictKeys(anaphones_nontrivial_unique_pronunciation) \subseteq keys
                  /\ ReportMembers(anaphones) \subseteq keys
                  /\ ReportMembers(anaphones_unique_pronunciation) \subseteq keys
                  /\ ReportMembers(anaphones_nontrivial_unique_pronunciation) \subseteq keys

\* The run is over on an input with two raw spellings that normalise to one
\* Spelling, the earlier with a variant that the later has not.
C10_Witness ==
    /\ pc = "done"
    /\ \E n, m \in 1..Len(InputItems) :
          /\ n < m
          /\ Spelling(InputItems[n].k) = Spelling(InputItems[m].k)
          /\ PronunciationSet(InputItems[n].v.s) \ PronunciationSet(InputItems[m].v.s) # {}
          /\ \E p \in PronunciationSet(InputItems[n].v.s) :
                PronouncedWord(Spelling(InputItems[n].k), p) \notin Range(Words)

===========================================================================
